---- MODULE Spec2Model ----
(***************************************************************************)
(* Model of .github/scripts/build_update_config.py: the MemoFlow update    *)
(* config compiler.  A run reads a directory tree (manifest.json, the      *)
(* announcements/<id>.json files and a donors file), validates and merges  *)
(* it (compile_update_config), patches per-platform overrides             *)
(* (_apply_overrides) and writes the merged document (main).               *)
(*                                                                         *)
(* Python strings that the code trims, tests with isdigit() or lowercases  *)
(* are sequences of one-character strings, so that strip(), isdigit(),     *)
(* lower() and str() are computed and not assumed.  JSON values are        *)
(* records [t |-> type tag, v |-> payload].  Dictionary keys that the code *)
(* only looks up by literal name are TLA+ strings.                         *)
(***************************************************************************)
EXTENDS Integers, Sequences, FiniteSets, TLC

VARIABLES
    root,       \* the input directory tree (read-only)
    args,       \* the parsed command line (argparse.Namespace)
    pc,         \* position of the run
    outcome,    \* "none" | "ok" | "error": how the last call ended
    given,      \* the document _apply_overrides is called with
    merged,     \* the merged document
    summary,    \* the validation summary
    error,      \* the ConfigError raised, if any
    output,     \* the state of the output file
    writes,     \* how often the output file was opened for writing
    exit_code,  \* the process exit status, -1 while running
    entry,      \* _build_release_note's argument
    note        \* _build_release_note's result

vars == <<root, args, pc, outcome, given, merged, summary, error, output, writes,
          exit_code, entry, note>>

----------------------------------------------------------------------------
(* Bounds of the model *)

\* longest manifest.announcement_ids list drawn
MaxIds == 2

\* longest release-note items list drawn
MaxItems == 2

----------------------------------------------------------------------------
(* Python strings *)

Whitespace == {" "}

DigitChars == <<"0", "1", "2", "3", "4", "5", "6", "7", "8", "9">>

Digits == {DigitChars[i] : i \in 1..10}

UpperChars == <<"A", "B", "C", "D", "E", "F", "G", "H", "I", "J", "K", "L", "M",
                "N", "O", "P", "Q", "R", "S", "T", "U", "V", "W", "X", "Y", "Z">>

LowerChars == <<"a", "b", "c", "d", "e", "f", "g", "h", "i", "j", "k", "l", "m",
                "n", "o", "p", "q", "r", "s", "t", "u", "v", "w", "x", "y", "z">>

\* str.lstrip()
RECURSIVE LStrip(_)
LStrip(s) ==
    IF s # <<>> /\ Head(s) \in Whitespace THEN LStrip(Tail(s)) ELSE s

\* str.rstrip()
RECURSIVE RStrip(_)
RStrip(s) ==
    IF s # <<>> /\ s[Len(s)] \in Whitespace
    THEN RStrip(SubSeq(s, 1, Len(s) - 1))
    ELSE s

\* str.strip()
Strip(s) == RStrip(LStrip(s))

\* str.isdigit(): non-empty and every character a digit
IsDigit(s) == s # <<>> /\ \A i \in 1..Len(s) : s[i] \in Digits

LowerChar(c) ==
    IF \E i \in 1..26 : UpperChars[i] = c
    THEN LowerChars[CHOOSE i \in 1..26 : UpperChars[i] = c]
    ELSE c

\* str.lower()
Lower(s) == [i \in 1..Len(s) |-> LowerChar(s[i])]

\* str(n) of a non-negative int
RECURSIVE NatToStr(_)
NatToStr(n) ==
    IF n < 10
    THEN <<DigitChars[n + 1]>>
    ELSE NatToStr(n \div 10) \o <<DigitChars[(n % 10) + 1]>>

\* str(n) of an int: a negative one keeps its sign
IntToStr(n) == IF n < 0 THEN <<"-">> \o NatToStr(-n) ELSE NatToStr(n)

----------------------------------------------------------------------------
(* JSON values as json.loads returns them *)

JNull == [t |-> "null", v |-> 0]
JBool(b) == [t |-> "bool", v |-> b]
JInt(n) == [t |-> "int", v |-> n]
JFloat(name) == [t |-> "float", v |-> name]
JStr(s) == [t |-> "str", v |-> s]
JList(xs) == [t |-> "list", v |-> xs]
JDict(d) == [t |-> "dict", v |-> d]

\* the dict with no key
EmptyDict == [k \in {} |-> JNull]

\* isinstance(value, int): bool is a subclass of int in Python
IsInstanceInt(value) == value.t \in {"int", "bool"}

IsInstanceStr(value) == value.t = "str"
IsInstanceList(value) == value.t = "list"
IsInstanceDict(value) == value.t = "dict"

\* str(value) for the scalar values the model draws
PyStr(value) ==
    CASE value.t = "str" -> value.v
      [] value.t = "int" -> IntToStr(value.v)
      [] value.t = "bool" ->
            IF value.v THEN <<"T", "r", "u", "e">> ELSE <<"F", "a", "l", "s", "e">>
      [] value.t = "null" -> <<"N", "o", "n", "e">>
      [] value.t = "float" -> value.v

\* bool(value)
PyBool(value) ==
    CASE value.t = "bool" -> value.v
      [] value.t = "int" -> value.v # 0
      [] value.t = "str" -> value.v # <<>>
      [] value.t = "list" -> value.v # <<>>
      [] value.t = "dict" -> DOMAIN value.v # {}
      [] OTHER -> FALSE

\* dict.get(key, default)
Get(d, key, default) == IF key \in DOMAIN d THEN d[key] ELSE default

----------------------------------------------------------------------------
(* Results of calls that may raise ConfigError *)

Ok(value) == [ok |-> TRUE, value |-> value]
Raise(kind, where, value) ==
    [ok |-> FALSE, err |-> [kind |-> kind, value |-> value, where |-> where]]

NoError == [kind |-> "none", value |-> JNull, where |-> "none"]

----------------------------------------------------------------------------
(* Files of the input tree *)

\* a path that does not exist
Absent == [st |-> "absent", data |-> JNull]
\* a path that exists and cannot be read (read_text raises OSError)
Unreadable == [st |-> "unreadable", data |-> JNull]
\* a file whose text is not JSON
BadJson == [st |-> "badjson", data |-> JNull]
\* a file holding the JSON value data
JsonFile(data) == [st |-> "json", data |-> data]

\* pathlib.Path.exists()
Exists(file) == file.st # "absent"

ReadJson(file, path) ==
    IF file.st \in {"absent", "unreadable"} THEN Raise("failed_reading", path, JNull)
    ELSE IF file.st = "badjson" THEN Raise("invalid_json", path, JNull)
    ELSE IF ~IsInstanceDict(file.data) THEN Raise("json_object_required", path, JNull)
    ELSE Ok(file.data.v)

ReadJsonList(file, path) ==
    IF file.st \in {"absent", "unreadable"} THEN Raise("failed_reading", path, JNull)
    ELSE IF file.st = "badjson" THEN Raise("invalid_json", path, JNull)
    ELSE IF ~IsInstanceList(file.data) THEN Raise("json_array_required", path, JNull)
    ELSE Ok(file.data.v)

----------------------------------------------------------------------------
(* _normalize_id *)

NormalizeId(value, where) ==
    IF IsInstanceInt(value) THEN Ok(PyStr(value))
    ELSE IF IsInstanceStr(value) /\ IsDigit(Strip(value.v)) THEN Ok(Strip(value.v))
    ELSE Raise("invalid_announcement_id", where, value)

----------------------------------------------------------------------------
(* _load_announcements *)

\* the file at root/announcements/<ann_id>.json
AnnouncementFile(tree, ann_id) ==
    IF ann_id \in DOMAIN tree.announcements
    THEN tree.announcements[ann_id]
    ELSE Absent

\* LoadAnnouncement without the comparison of the file's id with the id listed
LoadAnnouncementUncompared(tree, ann_id) ==
    LET path == <<"announcements", ann_id>>
        WithFileId(data, file_id) == IF ~file_id.ok THEN file_id ELSE Ok(data)
        WithData(data) ==
            IF ~data.ok THEN data
            ELSE WithFileId(data.value, NormalizeId(Get(data.value, "id", JNull), path))
        WithFile(file) ==
            IF ~Exists(file) THEN Raise("missing_announcement_file", path, JNull)
            ELSE WithData(ReadJson(file, path))
    IN  WithFile(AnnouncementFile(tree, ann_id))

\* one iteration of the loop: the announcement's data, or the error raised
LoadAnnouncement(tree, ann_id) ==
    LET path == <<"announcements", ann_id>>
        WithFileId(data, file_id) ==
            IF ~file_id.ok THEN file_id
            ELSE IF file_id.value # ann_id
            THEN Raise("announcement_id_mismatch", path, JStr(file_id.value))
            ELSE Ok(data)
        WithData(data) ==
            IF ~data.ok THEN data
            ELSE WithFileId(data.value, NormalizeId(Get(data.value, "id", JNull), path))
        WithFile(file) ==
            IF ~Exists(file) THEN Raise("missing_announcement_file", path, JNull)
            ELSE WithData(ReadJson(file, path))
    IN  WithFile(AnnouncementFile(tree, ann_id))

\* the result of a loop whose iterations end as results[1], results[2], ...:
\* the first error raised or, when there is none, the values
FirstErrorOrValues(results) ==
    IF \E i \in 1..Len(results) : ~results[i].ok
    THEN results[CHOOSE i \in 1..Len(results) :
                    ~results[i].ok /\ \A j \in 1..(i - 1) : results[j].ok]
    ELSE Ok([i \in 1..Len(results) |-> results[i].value])

\* the ids in list order; the first failing one raises
LoadAnnouncements(tree, ids) ==
    LET WithLoaded(loaded) ==
            IF ~loaded.ok THEN loaded
            ELSE Ok([ann_id \in {ids[i] : i \in 1..Len(ids)} |->
                        loaded.value[CHOOSE i \in 1..Len(ids) : ids[i] = ann_id]])
    IN  WithLoaded(FirstErrorOrValues(
            [i \in 1..Len(ids) |-> LoadAnnouncement(tree, ids[i])]))

----------------------------------------------------------------------------
(* _build_release_note *)

\* A dict the code iterates (item contents) keeps its insertion order:
\* [t |-> "items", v |-> sequence of [key, value]].  json.loads yields only
\* string keys, so the isinstance(key, str) test never skips one.
JItems(pairs) == [t |-> "items", v |-> pairs]

\* NonEmpty without the test
NonEmptyUntested(s) == TRUE

NonEmpty(s) == s # <<>>

\* [str(x).strip() for x in value if str(x).strip()]
StrippedNonEmpty(xs) ==
    LET Wrapped(kept) == [i \in 1..Len(kept) |-> JStr(kept[i])]
    IN  Wrapped(SelectSeq([i \in 1..Len(xs) |-> Strip(PyStr(xs[i]))], NonEmpty))

\* the values list of one language of a contents dict
LocalizedValues(value) ==
    IF IsInstanceStr(value)
    THEN IF Strip(value.v) # <<>> THEN <<JStr(Strip(value.v))>> ELSE <<>>
    ELSE IF IsInstanceList(value) THEN StrippedNonEmpty(value.v)
    ELSE <<>>

\* the localized dict: a later key of the same language overwrites
Localized(pairs) ==
    LET Collected(set) ==
            LET setters == {i \in 1..Len(set) : set[i].lang # <<>> /\ set[i].values # <<>>}
                last(l) == CHOOSE i \in setters :
                               /\ set[i].lang = l
                               /\ \A j \in setters : set[j].lang = l => j <= i
            IN  [l \in {set[i].lang : i \in setters} |-> JList(set[last(l)].values)]
    IN  Collected([i \in 1..Len(pairs) |->
                      [lang |-> Lower(Strip(pairs[i].key)),
                       values |-> LocalizedValues(pairs[i].value)]])

NormalizedContents(contents) ==
    IF contents.t = "items" THEN JDict(Localized(contents.v))
    ELSE IF IsInstanceStr(contents)
    THEN IF Strip(contents.v) # <<>> THEN JList(<<JStr(Strip(contents.v))>>) ELSE JList(<<>>)
    ELSE IF IsInstanceList(contents) THEN JList(StrippedNonEmpty(contents.v))
    ELSE JList(<<>>)

\* one iteration of the items loop: whether the item is appended, and as what
NormalizedItem(item) ==
    IF ~IsInstanceDict(item) THEN [kept |-> FALSE, item |-> JNull]
    ELSE LET Decide(category, normalized_contents) ==
                 IF category = <<>> /\ ~PyBool(normalized_contents)
                 THEN [kept |-> FALSE, item |-> JNull]
                 ELSE [kept |-> TRUE,
                       item |-> JDict([category |-> JStr(category),
                                       contents |-> normalized_contents])]
         IN  Decide(Strip(PyStr(Get(item.v, "category", JStr(<<>>)))),
                    NormalizedContents(Get(item.v, "contents", JNull)))

IsKept(r) == r.kept

NormalizedItems(items) ==
    LET Appended(kept) == [i \in 1..Len(kept) |-> kept[i].item]
    IN  Appended(SelectSeq([i \in 1..Len(items) |-> NormalizedItem(items[i])], IsKept))

BuildReleaseNote(e) ==
    LET Note(version, date_label, normalized_items) ==
            IF version = <<>> /\ normalized_items = <<>>
            THEN JNull
            ELSE JDict([version |-> JStr(version),
                        date |-> JStr(date_label),
                        items |-> JList(normalized_items)])
        ItemsOf(raw) == IF IsInstanceList(raw) THEN raw.v ELSE <<>>
    IN  Note(Strip(PyStr(Get(e, "version", JStr(<<>>)))),
             Strip(PyStr(Get(e, "date", JStr(<<>>)))),
             NormalizedItems(ItemsOf(Get(e, "items", JNull))))

----------------------------------------------------------------------------
(* compile_update_config *)

donors_json == <<"d", "o", "n", "o", "r", "s", ".", "j", "s", "o", "n">>

\* the manifest keys that are popped from the merged document
InternalKeys ==
    {"announcement_ids", "latest_announcement_id", "donors_file", "announcement_tag_index"}

\* the keys that are set on the merged document
InjectedKeys == {"announcement", "donors", "release_notes"}

\* the list comprehension over announcement_ids_raw: the first invalid entry raises
NormalizeIds(raw) ==
    FirstErrorOrValues(
        [i \in 1..Len(raw) |-> NormalizeId(raw[i], <<"manifest.announcement_ids">>)])

\* HasDuplicates with the lengths compared of the list and itself
HasDuplicatesOfList(ids) == Len(ids) # Len(ids)

\* len(set(announcement_ids)) != len(announcement_ids)
HasDuplicates(ids) == Cardinality({ids[i] : i \in 1..Len(ids)}) # Len(ids)

\* latest_announcement_id not in announcement_ids
LatestMissing(latest, ids) == ~\E i \in 1..Len(ids) : ids[i] = latest

\* str(manifest.get("donors_file", "donors.json")).strip()
DonorsFileName(manifest) == Strip(PyStr(Get(manifest, "donors_file", JStr(donors_json))))

\* the file at root/<name>; root/"" is root itself, a directory
RootFile(tree, name) ==
    IF name = <<>> THEN Unreadable
    ELSE IF name \in DOMAIN tree.files THEN tree.files[name]
    ELSE Absent

\* LoadDonors taking every absent file for an empty list
LoadDonorsLenient(tree, manifest) ==
    LET WithPath(donors_file, donors_path) ==
            IF Exists(donors_path) THEN ReadJsonList(donors_path, <<donors_file>>)
            ELSE Ok(<<>>)
        WithName(donors_file) ==
            IF donors_file # <<>>
            THEN WithPath(donors_file, RootFile(tree, donors_file))
            ELSE Ok(<<>>)
    IN  WithName(DonorsFileName(manifest))

\* the donors list, or the error raised
LoadDonors(tree, manifest) ==
    LET WithPath(donors_file, donors_path) ==
            IF Exists(donors_path) THEN ReadJsonList(donors_path, <<donors_file>>)
            ELSE IF donors_file # donors_json
            THEN Raise("donors_file_not_found", <<donors_file>>, JNull)
            ELSE Ok(<<>>)
        WithName(donors_file) ==
            IF donors_file # <<>>
            THEN WithPath(donors_file, RootFile(tree, donors_file))
            ELSE Ok(<<>>)
    IN  WithName(DonorsFileName(manifest))

\* IsNote without the test
IsNoteUntested(n) == TRUE

\* note is not None
IsNote(n) == n.t # "null"

\* the notes of the announcements in ids order, None results left out
ReleaseNotes(announcements, ids) ==
    SelectSeq([i \in 1..Len(ids) |-> BuildReleaseNote(announcements[ids[i]])], IsNote)

\* ActiveAnnouncement with the id copied from the file as it is written there
ActiveAnnouncementFileId(latest_announcement_id, active) ==
    JDict([id |-> Get(active, "id", JNull),
           title |-> JStr(Strip(PyStr(Get(active, "title", JStr(<<>>))))),
           show_when_up_to_date |->
               JBool(PyBool(Get(active, "show_when_up_to_date", JBool(FALSE)))),
           contents |-> Get(active, "contents", JDict(EmptyDict)),
           new_donor_ids |-> Get(active, "new_donor_ids", JList(<<>>))])

\* merged["announcement"]
ActiveAnnouncement(latest_announcement_id, active) ==
    JDict([id |-> JStr(latest_announcement_id),
           title |-> JStr(Strip(PyStr(Get(active, "title", JStr(<<>>))))),
           show_when_up_to_date |->
               JBool(PyBool(Get(active, "show_when_up_to_date", JBool(FALSE)))),
           contents |-> Get(active, "contents", JDict(EmptyDict)),
           new_donor_ids |-> Get(active, "new_donor_ids", JList(<<>>))])

\* Assemble without the pop of announcement_tag_index
AssembleKeepsTagIndex(manifest, announcement, donors, release_notes) ==
    [k \in (DOMAIN manifest \ (InternalKeys \ {"announcement_tag_index"})) \cup InjectedKeys |->
        CASE k = "announcement" -> announcement
          [] k = "donors" -> JList(donors)
          [] k = "release_notes" -> JList(release_notes)
          [] OTHER -> manifest[k]]

\* deepcopy(manifest), the four pops and the three assignments
Assemble(manifest, announcement, donors, release_notes) ==
    [k \in (DOMAIN manifest \ InternalKeys) \cup InjectedKeys |->
        CASE k = "announcement" -> announcement
          [] k = "donors" -> JList(donors)
          [] k = "release_notes" -> JList(release_notes)
          [] OTHER -> manifest[k]]

\* the part of compile_update_config after the ids and the latest id are valid
CompileValidated(tree, manifest, announcement_ids, latest_announcement_id) ==
    LET Built(announcements, donors, release_notes) ==
            Ok([merged |->
                    Assemble(manifest,
                             ActiveAnnouncement(latest_announcement_id,
                                                announcements[latest_announcement_id]),
                             donors, release_notes),
                summary |->
                    [announcement_ids |-> announcement_ids,
                     latest_announcement_id |-> latest_announcement_id,
                     release_notes_count |-> Len(release_notes),
                     donors_count |-> Len(donors)]])
        WithDonors(announcements, donors) ==
            IF ~donors.ok THEN donors
            ELSE Built(announcements, donors.value,
                       ReleaseNotes(announcements, announcement_ids))
        WithAnnouncements(loaded) ==
            IF ~loaded.ok THEN loaded
            ELSE WithDonors(loaded.value, LoadDonors(tree, manifest))
    IN  WithAnnouncements(LoadAnnouncements(tree, announcement_ids))

\* the part of compile_update_config after the manifest is read
CompileManifest(tree, manifest) ==
    LET WithLatest(ids, latest) ==
            IF ~latest.ok THEN latest
            ELSE IF LatestMissing(latest.value, ids)
            THEN Raise("latest_not_in_announcement_ids",
                       <<"manifest.latest_announcement_id">>, JStr(latest.value))
            ELSE CompileValidated(tree, manifest, ids, latest.value)
        WithIds(ids) ==
            IF ~ids.ok THEN ids
            ELSE IF HasDuplicates(ids.value)
            THEN Raise("announcement_ids_duplicates", <<"manifest.announcement_ids">>, JNull)
            ELSE WithLatest(ids.value,
                            NormalizeId(Get(manifest, "latest_announcement_id", JNull),
                                        <<"manifest.latest_announcement_id">>))
        WithRaw(announcement_ids_raw) ==
            IF ~IsInstanceList(announcement_ids_raw) \/ announcement_ids_raw.v = <<>>
            THEN Raise("announcement_ids_not_nonempty_array",
                       <<"manifest.announcement_ids">>, JNull)
            ELSE WithIds(NormalizeIds(announcement_ids_raw.v))
    IN  WithRaw(Get(manifest, "announcement_ids", JNull))

CompileUpdateConfig(tree) ==
    LET WithManifest(manifest) ==
            IF ~manifest.ok THEN manifest ELSE CompileManifest(tree, manifest.value)
    IN  IF ~Exists(tree.manifest)
        THEN Raise("manifest_not_found", <<"manifest.json">>, JNull)
        ELSE WithManifest(ReadJson(tree.manifest, <<"manifest.json">>))

----------------------------------------------------------------------------
(* _apply_overrides *)

\* d[key] = value
SetKey(d, key, value) ==
    [k \in DOMAIN d \cup {key} |-> IF k = key THEN value ELSE d[k]]

\* get_platform: the platform's dict, or None
GetPlatform(version_info, name) ==
    LET value == Get(version_info, name, JNull)
    IN  IF IsInstanceDict(value) THEN value ELSE JNull

\* set_nonempty: the target after the call
SetNonempty(target, key, value) ==
    IF target.t = "null" THEN target
    ELSE IF Strip(value) # <<>>
    THEN JDict(SetKey(target.v, key, JStr(Strip(value))))
    ELSE target

\* TagDefault without the test of the version override
TagDefaultOverVersion(target, tag_text, url, version) ==
    IF tag_text # <<>> /\ target.t # "null" /\ Strip(url) # <<>>
    THEN JDict(SetKey(target.v, "latest_version", JStr(tag_text)))
    ELSE target

\* the tag default of one platform
TagDefault(target, tag_text, url, version) ==
    IF tag_text # <<>> /\ target.t # "null" /\ Strip(url) # <<>> /\ Strip(version) = <<>>
    THEN JDict(SetKey(target.v, "latest_version", JStr(tag_text)))
    ELSE target

\* what the three statements that touch one platform leave of it
PlatformAfter(target, tag_version, url, version) ==
    TagDefault(SetNonempty(SetNonempty(target, "url", url), "latest_version", version),
               Strip(tag_version), url, version)

\* the merged document after _apply_overrides(merged, **a)
ApplyOverrides(m, a) ==
    LET version_info == Get(m, "version_info", JNull)
    IN  IF ~IsInstanceDict(version_info) THEN m
        ELSE LET android == GetPlatform(version_info.v, "android")
                 ios == GetPlatform(version_info.v, "ios")
                 windows == GetPlatform(version_info.v, "windows")
                 after ==
                    [k \in DOMAIN version_info.v |->
                        IF k = "android" /\ android.t # "null"
                        THEN PlatformAfter(android, a.tag_version,
                                           a.android_url, a.android_version)
                        ELSE IF k = "ios" /\ ios.t # "null"
                        THEN PlatformAfter(ios, a.tag_version, a.ios_url, a.ios_version)
                        ELSE IF k = "windows" /\ windows.t # "null"
                        THEN PlatformAfter(windows, a.tag_version,
                                           a.windows_url, a.windows_version)
                        ELSE version_info.v[k]]
             IN  [m EXCEPT !["version_info"] = JDict(after)]

----------------------------------------------------------------------------
(* The inputs drawn: directory trees *)

\* a field left out of a dict under construction
NoKey == [t |-> "nokey", v |-> 0]

\* the dict of the fields that are given
MakeDict(fields) ==
    [k \in {x \in DOMAIN fields : fields[x].t # "nokey"} |-> fields[k]]

\* the lists over S of at most n elements
ListsUpTo(S, n) == UNION {[1..k -> S] : k \in 0..n}

s_1 == <<"1">>
s_2 == <<"2">>
s_neg1 == <<"-", "1">>
s_True == <<"T", "r", "u", "e">>
s_01 == <<"0", "1">>
s_None == <<"N", "o", "n", "e">>
custom_json == <<"c", "u", "s", "t", "o", "m", ".", "j", "s", "o", "n">>

\* entries of manifest.announcement_ids: ids 1 and 2 in several spellings, a
\* negative int, a bool, a zero-padded string and three values that are no id
RawIds ==
    {JInt(1), JStr(<<" ", "1">>), JStr(<<"2", " ">>), JInt(-1), JBool(TRUE),
     JStr(s_01), JStr(<<"a">>), JFloat(<<"1", ".", "5">>), JNull}

RawLatest == {NoKey, JInt(1), JStr(<<" ", "2">>), JInt(-1), JBool(TRUE)}

\* the release-note fields of an announcement file
NoteVariants ==
    {[version |-> NoKey, items |-> NoKey],
     [version |-> JStr(<<" ", "1", ".", "0">>), items |-> JList(<<>>)],
     [version |-> JStr(<<" ">>),
      items |-> JList(<<JDict([category |-> JStr(<<"F", "i", "x">>)])>>)],
     [version |-> JStr(<<>>), items |-> JList(<<JDict(EmptyDict), JStr(<<"x">>)>>)],
     [version |-> JNull, items |-> JStr(<<"x">>)]}

PlainNote == [version |-> JStr(<<" ", "1", ".", "0">>), items |-> JList(<<>>)]

\* announcements/<stem>.json holding id idv; title, contents and donor ids
\* name the stem, so that the file a value came from can be told
Announcement(stem, idv, rn) ==
    JsonFile(JDict(MakeDict(
        [id |-> idv,
         title |-> JStr(<<" ", "T">> \o stem \o <<" ">>),
         show_when_up_to_date |-> JStr(stem),
         contents |-> JDict([en |-> JStr(stem)]),
         new_donor_ids |-> JList(<<JStr(stem)>>),
         version |-> rn.version,
         date |-> JStr(<<"d">> \o stem),
         items |-> rn.items])))

Stems == {s_1, s_2, s_neg1, s_True, s_01}

\* the JSON id a correct announcements/<stem>.json holds
OwnId(stem) ==
    CASE stem = s_1 -> JInt(1)
      [] stem = s_2 -> JInt(2)
      [] stem = s_neg1 -> JInt(-1)
      [] stem = s_True -> JBool(TRUE)
      [] stem = s_01 -> JStr(s_01)

\* an id of another announcement
OtherId(stem) == IF stem = s_1 THEN JStr(s_2) ELSE JInt(1)

Good(stem) == Announcement(stem, OwnId(stem), PlainNote)

\* what may be found at announcements/<stem>.json
FileOptions(stem) ==
    {Absent, Unreadable, BadJson, JsonFile(JList(<<>>)),
     Good(stem),
     Announcement(stem, JStr(<<" ">> \o stem \o <<" ">>), PlainNote),
     Announcement(stem, NoKey, PlainNote),
     Announcement(stem, OtherId(stem), PlainNote)}

AllGood == [stem \in Stems |-> Good(stem)]

\* announcement directories: every file of ids 1 and 2 varied, or the
\* files of the unusual ids varied
Directories ==
    {[AllGood EXCEPT ![s_1] = f1, ![s_2] = f2] :
        f1 \in FileOptions(s_1), f2 \in FileOptions(s_2)}
    \cup
    {[AllGood EXCEPT ![s_neg1] = f1, ![s_True] = f2, ![s_01] = f3] :
        f1 \in {Absent, Good(s_neg1), Announcement(s_neg1, JInt(1), PlainNote)},
        f2 \in {Absent, Good(s_True), Announcement(s_True, JStr(s_True), PlainNote)},
        f3 \in {Absent, Good(s_01), Announcement(s_01, JInt(1), PlainNote)}}

\* directories whose announcements 1 and 2 vary in their release-note fields
NoteDirectories ==
    {[AllGood EXCEPT ![s_1] = Announcement(s_1, JInt(1), n1),
                     ![s_2] = Announcement(s_2, JStr(s_2), n2)] :
        n1 \in NoteVariants, n2 \in NoteVariants}

\* valid id lists of the usual and the unusual ids
SomeValidIds ==
    {<<JInt(1)>>, <<JInt(1), JStr(<<"2", " ">>)>>, <<JStr(<<"2", " ">>), JInt(1)>>,
     <<JInt(-1), JInt(1)>>, <<JBool(TRUE)>>, <<JStr(s_01), JInt(1)>>}

version_info ==
    JDict([android |-> JDict([url |-> JStr(<<"a">>), latest_version |-> JStr(<<"1">>)]),
           ios |-> JStr(<<"x">>)])

\* the manifest keys that are not index pointers, and keys a manifest may
\* hold that the compiler sets itself
ExtraKeys ==
    {"schema_version", "version_info", "notice", "announcement_tag_index",
     "announcement", "donors", "release_notes"}

ExtraValue(k) ==
    CASE k = "schema_version" -> JInt(1)
      [] k = "version_info" -> version_info
      [] k = "announcement_tag_index" -> JDict(EmptyDict)
      [] OTHER -> JStr(<<"m">>)

UsualKeys == {"schema_version", "version_info", "notice"}

Manifest(ids, latest, donors_file, keys) ==
    LET core == MakeDict([announcement_ids |-> ids,
                          latest_announcement_id |-> latest,
                          donors_file |-> donors_file])
    IN  JsonFile(JDict([k \in DOMAIN core \cup keys |->
                            IF k \in DOMAIN core THEN core[k] ELSE ExtraValue(k)]))

DonorList == JsonFile(JList(<<JDict([id |-> JInt(7)])>>))

\* root without any donors file
NoFiles == [n \in {} |-> Absent]

\* what may be found at root/donors.json, root/custom.json and root/None
DonorFiles ==
    {[n \in {donors_json, custom_json, s_None} |->
        IF n = donors_json THEN f1 ELSE IF n = custom_json THEN f2 ELSE f3] :
        f1 \in {Absent, DonorList, JsonFile(JDict(EmptyDict)), BadJson},
        f2 \in {Absent, DonorList, JsonFile(JDict(EmptyDict)), Unreadable},
        f3 \in {Absent, DonorList}}

DonorsFileValues ==
    {NoKey, JStr(<<" ">> \o donors_json \o <<" ">>), JStr(custom_json),
     JStr(<<>>), JStr(<<" ", " ">>), JNull}

Tree(manifest, announcements, files) ==
    [manifest |-> manifest, announcements |-> announcements, files |-> files]

\* every id list against every latest id
IdTrees ==
    {Tree(Manifest(ids, latest, NoKey, UsualKeys), dir, NoFiles) :
        ids \in {NoKey, JStr(<<"1">>)} \cup {JList(l) : l \in ListsUpTo(RawIds, MaxIds)},
        latest \in RawLatest,
        dir \in {AllGood, [AllGood EXCEPT ![s_1] = Absent]}}

\* valid id lists against every directory
FileTrees ==
    {Tree(Manifest(JList(ids), latest, NoKey, UsualKeys), dir, NoFiles) :
        ids \in SomeValidIds, latest \in RawLatest, dir \in Directories}

\* every donors_file against every state of the donor files
DonorTrees ==
    {Tree(Manifest(JList(ids), JInt(1), donors_file, UsualKeys), AllGood, files) :
        ids \in {<<JInt(1)>>, <<JStr(<<"a">>)>>},
        donors_file \in DonorsFileValues,
        files \in DonorFiles}

\* every set of the other manifest keys
KeyTrees ==
    {Tree(Manifest(JList(<<JInt(1)>>), JInt(1), donors_file, keys), AllGood, NoFiles) :
        donors_file \in {NoKey, JStr(donors_json)},
        keys \in SUBSET ExtraKeys}

\* every pair of release-note shapes, in both orders of the ids
NoteTrees ==
    {Tree(Manifest(JList(ids), JInt(1), NoKey, UsualKeys), dir, NoFiles) :
        ids \in {<<JInt(1)>>, <<JInt(1), JStr(<<"2", " ">>)>>, <<JStr(<<"2", " ">>), JInt(1)>>},
        dir \in NoteDirectories}

\* trees whose manifest.json is no JSON object
BrokenTrees ==
    {Tree(m, AllGood, NoFiles) : m \in {Absent, Unreadable, BadJson, JsonFile(JList(<<>>))}}

\* the tree of a run is drawn from one of these families
RootDrawn ==
    \/ root \in IdTrees
    \/ root \in FileTrees
    \/ root \in DonorTrees
    \/ root \in KeyTrees
    \/ root \in NoteTrees
    \/ root \in BrokenTrees

----------------------------------------------------------------------------
(* The inputs drawn: command lines *)

\* parse_args' defaults
DefaultArgs ==
    [validate_only |-> FALSE, tag_version |-> <<>>,
     android_url |-> <<>>, ios_url |-> <<>>, windows_url |-> <<>>,
     android_version |-> <<>>, ios_version |-> <<>>, windows_version |-> <<>>]

TagArgs == {<<>>, <<" ">>, <<" ", "3", " ">>}
UrlArgs == {<<>>, <<" ">>, <<" ", "u", " ">>}
VersionArgs == {<<>>, <<" ", "9">>}

\* every combination of the override options
OverrideArgs ==
    {[validate_only |-> FALSE, tag_version |-> t,
      android_url |-> au, ios_url |-> iu, windows_url |-> wu,
      android_version |-> av, ios_version |-> iv, windows_version |-> wv] :
        t \in TagArgs, au \in UrlArgs, iu \in UrlArgs, wu \in UrlArgs,
        av \in VersionArgs, iv \in VersionArgs, wv \in VersionArgs}

\* the command lines of the runs of main
MainArgs ==
    {[a EXCEPT !.validate_only = vo] :
        vo \in BOOLEAN,
        a \in {DefaultArgs,
               [DefaultArgs EXCEPT !.tag_version = <<" ", "3", " ">>,
                                   !.android_url = <<" ", "u", " ">>]}}

\* what version_info.<platform> may be before the overrides
PlatformValues ==
    {NoKey, JStr(<<"x">>), JDict(EmptyDict),
     JDict([url |-> JStr(<<"o">>), latest_version |-> JStr(<<"1">>)])}

\* merged documents with every shape of version_info
OverrideDocs ==
    {MakeDict([schema_version |-> JInt(1), version_info |-> vi]) :
        vi \in {NoKey, JList(<<>>)}
               \cup {JDict(MakeDict([android |-> a, ios |-> i, windows |-> w,
                                     linux |-> JDict(EmptyDict)])) :
                        a \in PlatformValues, i \in PlatformValues, w \in PlatformValues}}

----------------------------------------------------------------------------
(* The inputs drawn: release-note entries *)

en_items ==
    JItems(<<[key |-> <<" ", "E", "N", " ">>, value |-> JStr(<<" ", "h", "i">>)],
             [key |-> <<"e", "n">>, value |-> JList(<<JStr(<<" ">>)>>)],
             [key |-> <<" ">>, value |-> JStr(<<"x">>)],
             [key |-> <<"f", "r">>, value |-> JList(<<JStr(<<"a", " ">>), JStr(<<>>), JInt(5)>>)],
             [key |-> <<"d", "e">>, value |-> JInt(5)]>>)

empty_items == JItems(<<[key |-> <<"e", "n">>, value |-> JStr(<<" ">>)]>>)

overwrite_items ==
    JItems(<<[key |-> <<"e", "n">>, value |-> JStr(<<"a">>)],
             [key |-> <<"E", "N">>, value |-> JStr(<<"b">>)]>>)

\* what an element of entry.items may be
RawItems ==
    {JStr(<<"x">>),
     JDict(EmptyDict),
     JDict([category |-> JStr(<<" ", "F", "i", "x", " ">>)]),
     JDict([category |-> JStr(<<" ">>), contents |-> JStr(<<" ">>)]),
     JDict([category |-> JNull, contents |-> JList(<<>>)]),
     JDict([contents |-> JStr(<<" ", "t", " ">>)]),
     JDict([contents |-> JList(<<JStr(<<" ", "a">>), JStr(<<" ">>), JInt(5), JNull>>)]),
     JDict([contents |-> en_items]),
     JDict([contents |-> empty_items]),
     JDict([category |-> JStr(<<"c">>), contents |-> overwrite_items])}

Entries ==
    {MakeDict([version |-> v, date |-> d, items |-> i]) :
        v \in {NoKey, JStr(<<" ">>), JStr(<<" ", "1", ".", "0", " ">>), JNull},
        d \in {NoKey, JStr(<<" ", "d">>)},
        i \in {NoKey, JStr(<<"x">>)} \cup {JList(l) : l \in ListsUpTo(RawItems, MaxItems)}}

----------------------------------------------------------------------------
(* The state at the start, and the state no call has touched *)

NoSummary ==
    [announcement_ids |-> <<>>, latest_announcement_id |-> <<>>,
     release_notes_count |-> 0, donors_count |-> 0]

\* the output path: nothing there, or the file of an earlier build
NoOutput == [st |-> "absent", doc |-> EmptyDict]
OldOutput == [st |-> "old", doc |-> EmptyDict]

EmptyTree == Tree(Absent, [s \in {} |-> Absent], NoFiles)

Untouched ==
    /\ outcome = "none"
    /\ summary = NoSummary
    /\ error = NoError
    /\ writes = 0
    /\ exit_code = -1
    /\ note = JNull

----------------------------------------------------------------------------
(* compile_update_config, called on its own *)

InitCompile ==
    /\ RootDrawn
    /\ args = DefaultArgs
    /\ pc = "compile"
    /\ given = EmptyDict
    /\ merged = EmptyDict
    /\ output = NoOutput
    /\ entry = EmptyDict
    /\ Untouched

CompileReturns ==
    /\ pc = "compile"
    /\ \E r \in {CompileUpdateConfig(root)} :
          /\ r.ok
          /\ merged' = r.value.merged
          /\ summary' = r.value.summary
    /\ outcome' = "ok"
    /\ pc' = "returned"
    /\ UNCHANGED <<root, args, given, error, output, writes, exit_code, entry, note>>

CompileRaises ==
    /\ pc = "compile"
    /\ \E r \in {CompileUpdateConfig(root)} :
          /\ ~r.ok
          /\ error' = r.err
    /\ outcome' = "error"
    /\ pc' = "returned"
    /\ UNCHANGED <<root, args, given, merged, summary, output, writes, exit_code, entry,
                   note>>

NextCompile == CompileReturns \/ CompileRaises

SpecCompile == InitCompile /\ [][NextCompile]_vars

----------------------------------------------------------------------------
(* _apply_overrides, called on its own *)

InitOverrides ==
    /\ root = EmptyTree
    /\ args \in OverrideArgs
    /\ pc = "overrides"
    /\ given \in OverrideDocs
    /\ merged = given
    /\ output = NoOutput
    /\ entry = EmptyDict
    /\ Untouched

Overrides ==
    /\ pc = "overrides"
    /\ merged' = ApplyOverrides(given, args)
    /\ outcome' = "ok"
    /\ pc' = "returned"
    /\ UNCHANGED <<root, args, given, summary, error, output, writes, exit_code, entry, note>>

NextOverrides == Overrides

SpecOverrides == InitOverrides /\ [][NextOverrides]_vars

----------------------------------------------------------------------------
(* _build_release_note, called on its own *)

InitReleaseNote ==
    /\ root = EmptyTree
    /\ args = DefaultArgs
    /\ pc = "release_note"
    /\ given = EmptyDict
    /\ merged = EmptyDict
    /\ output = NoOutput
    /\ entry \in Entries
    /\ Untouched

ReleaseNote ==
    /\ pc = "release_note"
    /\ note' = BuildReleaseNote(entry)
    /\ outcome' = "ok"
    /\ pc' = "returned"
    /\ UNCHANGED <<root, args, given, merged, summary, error, output, writes, exit_code,
                   entry>>

NextReleaseNote == ReleaseNote

SpecReleaseNote == InitReleaseNote /\ [][NextReleaseNote]_vars

----------------------------------------------------------------------------
(* main *)

Init ==
    /\ RootDrawn
    /\ args \in MainArgs
    /\ pc = "main"
    /\ given = EmptyDict
    /\ merged = EmptyDict
    /\ output \in {NoOutput, OldOutput}
    /\ entry = EmptyDict
    /\ Untouched

\* the try block ends normally: the summary line is printed
MainValidated ==
    /\ pc = "main"
    /\ \E r \in {CompileUpdateConfig(root)} :
          /\ r.ok
          /\ given' = r.value.merged
          /\ merged' = ApplyOverrides(r.value.merged, args)
          /\ summary' = r.value.summary
    /\ outcome' = "ok"
    /\ pc' = "validated"
    /\ UNCHANGED <<root, args, error, output, writes, exit_code, entry, note>>

\* the try block raises ConfigError: the error line is printed, return 1
MainConfigError ==
    /\ pc = "main"
    /\ \E r \in {CompileUpdateConfig(root)} :
          /\ ~r.ok
          /\ error' = r.err
    /\ outcome' = "error"
    /\ exit_code' = 1
    /\ pc' = "exit"
    /\ UNCHANGED <<root, args, given, merged, summary, output, writes, entry, note>>

\* --validate-only: return 0
MainValidateOnly ==
    /\ pc = "validated"
    /\ args.validate_only
    /\ exit_code' = 0
    /\ pc' = "exit"
    /\ UNCHANGED <<root, args, outcome, given, merged, summary, error, output, writes,
                   entry, note>>

\* output.parent.mkdir(parents=True, exist_ok=True) succeeds
MainMkdir ==
    /\ pc = "validated"
    /\ ~args.validate_only
    /\ pc' = "write"
    /\ UNCHANGED <<root, args, outcome, given, merged, summary, error, output, writes,
                   exit_code, entry, note>>

\* mkdir raises OSError outside any try: the traceback ends the process with
\* status 1
MainMkdirFails ==
    /\ pc = "validated"
    /\ ~args.validate_only
    /\ outcome' = "crash"
    /\ exit_code' = 1
    /\ pc' = "exit"
    /\ UNCHANGED <<root, args, given, merged, summary, error, output, writes, entry, note>>

\* output.write_text succeeds: the built line is printed, return 0
MainWrite ==
    /\ pc = "write"
    /\ output' = [st |-> "written", doc |-> merged]
    /\ writes' = writes + 1
    /\ exit_code' = 0
    /\ pc' = "exit"
    /\ UNCHANGED <<root, args, outcome, given, merged, summary, error, entry, note>>

\* output.write_text raises OSError: return 1.  write_text opens the file with
\* mode "w" and then writes: when the open fails the path is left as it was,
\* when the write or the close fails the file is left truncated, holding
\* a prefix of the text.
MainWriteFails ==
    /\ pc = "write"
    /\ \E opened \in BOOLEAN :
          output' = IF opened THEN [st |-> "partial", doc |-> EmptyDict] ELSE output
    /\ writes' = writes + 1
    /\ outcome' = "write_failed"
    /\ exit_code' = 1
    /\ pc' = "exit"
    /\ UNCHANGED <<root, args, given, merged, summary, error, entry, note>>

Next ==
    \/ MainValidated
    \/ MainConfigError
    \/ MainValidateOnly
    \/ MainMkdir
    \/ MainMkdirFails
    \/ MainWrite
    \/ MainWriteFails

Spec == Init /\ [][Next]_vars

----------------------------------------------------------------------------
(* What the claims speak of, read from the input tree *)

Returned == pc = "returned"

\* manifest.json holds a JSON object
ManifestObject == root.manifest.st = "json" /\ root.manifest.data.t = "dict"

TheManifest == root.manifest.data.v

\* manifest.announcement_ids as written
RawIdList == Get(TheManifest, "announcement_ids", JNull)

\* manifest.announcement_ids is a JSON array
IdsListed == ManifestObject /\ RawIdList.t = "list"

\* the i-th entry of manifest.announcement_ids, normalized
Listed(i) == NormalizeId(RawIdList.v[i], <<"manifest.announcement_ids">>)

\* manifest.latest_announcement_id, normalized
Latest ==
    NormalizeId(Get(TheManifest, "latest_announcement_id", JNull),
                <<"manifest.latest_announcement_id">>)

\* announcements/<ann_id>.json is a JSON object whose id normalizes to ann_id
FileMatches(ann_id) ==
    LET file == AnnouncementFile(root, ann_id)
    IN  /\ file.st = "json"
        /\ file.data.t = "dict"
        /\ NormalizeId(Get(file.data.v, "id", JNull), <<>>).ok
        /\ NormalizeId(Get(file.data.v, "id", JNull), <<>>).value = ann_id

\* a non-empty string of the characters 0..9
DigitOnly(s) ==
    /\ Len(s) > 0
    /\ \A i \in 1..Len(s) : s[i] \in {"0", "1", "2", "3", "4", "5", "6", "7", "8", "9"}

----------------------------------------------------------------------------
(* Claims about compile_update_config, checked under SpecCompile *)

\* C1: compilation succeeds only if every id of the normalized
\* manifest.announcement_ids has its file announcements/<id>.json, a JSON
\* object whose own id normalizes to that id; and when a listed id has no
\* such file, compilation ends in a configuration error and returns no
\* merged document.
C1_AnnouncementFilesMatch ==
    Returned =>
        /\ outcome = "ok" =>
              /\ IdsListed
              /\ Len(summary.announcement_ids) = Len(RawIdList.v)
              /\ \A i \in 1..Len(RawIdList.v) :
                    /\ Listed(i).ok
                    /\ summary.announcement_ids[i] = Listed(i).value
                    /\ FileMatches(Listed(i).value)
        /\ (/\ IdsListed
            /\ \E i \in 1..Len(RawIdList.v) :
                  Listed(i).ok /\ ~FileMatches(Listed(i).value))
           => (outcome = "error" /\ error.kind # "none" /\ merged = EmptyDict)

\* C1's case: the second listed file holds another announcement's id
C1_Witness ==
    /\ Returned
    /\ outcome = "error"
    /\ error.kind = "announcement_id_mismatch"
    /\ Len(RawIdList.v) = 2
    /\ FileMatches(Listed(1).value)
    /\ AnnouncementFile(root, Listed(2).value).st = "json"

\* C2: a manifest whose announcement_ids holds two entries that normalize to
\* the same identifier (an int and a string spelling of it among them) never
\* compiles: the call ends in a configuration error.
C2_DuplicatesFail ==
    (/\ Returned
     /\ IdsListed
     /\ \E i, j \in 1..Len(RawIdList.v) :
           /\ i < j
           /\ Listed(i).ok
           /\ Listed(j).ok
           /\ Listed(i).value = Listed(j).value)
    => (outcome = "error" /\ error.kind # "none")

\* C2's case: the int 1 and the string " 1" are listed, and every file is right
C2_Witness ==
    /\ Returned
    /\ error.kind = "announcement_ids_duplicates"
    /\ Len(RawIdList.v) = 2
    /\ RawIdList.v[1].t = "int"
    /\ RawIdList.v[2].t = "str"
    /\ FileMatches(Listed(1).value)
    /\ Latest.ok

\* C3: after a successful compilation announcement.id is the normalized
\* manifest.latest_announcement_id, which is one of the normalized
\* announcement_ids, and title, show_when_up_to_date, contents and
\* new_donor_ids come from the file of that id (the files drawn all differ in
\* them); a latest id that is not listed makes compilation fail.
C3_ActiveIsLatest ==
    Returned =>
        /\ outcome = "ok" =>
              /\ Latest.ok
              /\ \E i \in 1..Len(summary.announcement_ids) :
                    summary.announcement_ids[i] = Latest.value
              /\ summary.latest_announcement_id = Latest.value
              /\ LET a == merged["announcement"].v
                     file == AnnouncementFile(root, Latest.value).data.v
                 IN  /\ a.id = JStr(Latest.value)
                     /\ a.title = JStr(Strip(PyStr(Get(file, "title", JStr(<<>>)))))
                     /\ a.show_when_up_to_date =
                            JBool(PyBool(Get(file, "show_when_up_to_date", JBool(FALSE))))
                     /\ a.contents = Get(file, "contents", JDict(EmptyDict))
                     /\ a.new_donor_ids = Get(file, "new_donor_ids", JList(<<>>))
                     /\ \A i \in 1..Len(summary.announcement_ids) :
                           summary.announcement_ids[i] # Latest.value =>
                              LET other == AnnouncementFile(
                                               root, summary.announcement_ids[i]).data.v
                              IN  /\ a.contents # Get(other, "contents", JDict(EmptyDict))
                                  /\ a.title # JStr(Strip(PyStr(Get(other, "title", JStr(<<>>)))))
        /\ (/\ IdsListed
            /\ \A i \in 1..Len(RawIdList.v) : Listed(i).ok
            /\ Latest.ok
            /\ \A i \in 1..Len(RawIdList.v) : Listed(i).value # Latest.value)
           => outcome = "error"

\* C3's case: two announcements compile and the latest is the second listed
C3_Witness ==
    /\ Returned
    /\ outcome = "ok"
    /\ Len(summary.announcement_ids) = 2
    /\ summary.announcement_ids[2] = summary.latest_announcement_id
    /\ merged["announcement"].v.title = JStr(<<"T", "2">>)

\* C8: _normalize_id returns digit-only strings: after a successful
\* compilation every raw entry of manifest.announcement_ids was accepted and
\* normalizes to a non-empty string of digits, and every id of
\* summary.announcement_ids, summary.latest_announcement_id and
\* announcement.id is a non-empty string of digits.
C8_IdsAreDigitOnly ==
    (Returned /\ outcome = "ok") =>
        /\ \A i \in 1..Len(RawIdList.v) : Listed(i).ok /\ DigitOnly(Listed(i).value)
        /\ \A i \in 1..Len(summary.announcement_ids) :
              DigitOnly(summary.announcement_ids[i])
        /\ DigitOnly(summary.latest_announcement_id)
        /\ DigitOnly(merged["announcement"].v.id.v)

\* C9: the merged document holds the manifest's keys without
\* announcement_ids, latest_announcement_id, donors_file and
\* announcement_tag_index, and the keys announcement, donors and
\* release_notes; the latter three hold the compiled values and every other
\* key holds the manifest's value.
C9_MergedKeys ==
    (Returned /\ outcome = "ok") =>
        /\ DOMAIN merged =
              (DOMAIN TheManifest
                  \ {"announcement_ids", "latest_announcement_id", "donors_file",
                     "announcement_tag_index"})
              \cup {"announcement", "donors", "release_notes"}
        /\ \A k \in DOMAIN merged \ {"announcement", "donors", "release_notes"} :
              merged[k] = TheManifest[k]
        /\ merged["announcement"].t = "dict"
        /\ merged["announcement"].v.id = JStr(summary.latest_announcement_id)
        /\ merged["donors"].t = "list"
        /\ Len(merged["donors"].v) = summary.donors_count
        /\ merged["release_notes"].t = "list"
        /\ Len(merged["release_notes"].v) = summary.release_notes_count

\* C9's case: the manifest holds every internal key and keys named like the
\* three the compiler sets
C9_Witness ==
    /\ Returned
    /\ outcome = "ok"
    /\ {"announcement_tag_index", "donors_file", "announcement", "donors",
        "release_notes", "notice"} \subseteq DOMAIN TheManifest

\* the j-th smallest element of the set K of numbers
Nth(K, j) == CHOOSE i \in K : Cardinality({k \in K : k < i}) = j - 1

\* C4: release_notes is the list of the normalized notes of the announcements
\* that have a non-empty trimmed version or a retained item, in the order of
\* manifest.announcement_ids, one entry for each of them, and
\* summary.release_notes_count is its length.
C4_ReleaseNotesInOrder ==
    (Returned /\ outcome = "ok") =>
        LET ids == summary.announcement_ids
            notes == merged["release_notes"].v
            EntryOf(i) == AnnouncementFile(root, ids[i]).data.v
            Version(i) == Strip(PyStr(Get(EntryOf(i), "version", JStr(<<>>))))
            Retained(i) ==
                IF Get(EntryOf(i), "items", JNull).t = "list"
                THEN NormalizedItems(Get(EntryOf(i), "items", JNull).v)
                ELSE <<>>
            K == {i \in 1..Len(ids) : Version(i) # <<>> \/ Retained(i) # <<>>}
        IN  /\ Len(notes) = Cardinality(K)
            /\ summary.release_notes_count = Len(notes)
            /\ \A j \in 1..Len(notes) :
                  /\ notes[j].t = "dict"
                  /\ notes[j].v.version = JStr(Version(Nth(K, j)))
                  /\ notes[j].v.items = JList(Retained(Nth(K, j)))
                  /\ notes[j].v.date =
                        JStr(Strip(PyStr(Get(EntryOf(Nth(K, j)), "date", JStr(<<>>)))))

\* C4's case: of two announcements the first has no note and the second has one
C4_Witness ==
    /\ Returned
    /\ outcome = "ok"
    /\ Len(summary.announcement_ids) = 2
    /\ Len(merged["release_notes"].v) = 1
    /\ merged["release_notes"].v[1].v.date = JStr(<<"d">> \o summary.announcement_ids[2])

\* every check of compile_update_config but the donors file passes
RestValid ==
    /\ IdsListed
    /\ RawIdList.v # <<>>
    /\ \A i \in 1..Len(RawIdList.v) : Listed(i).ok /\ FileMatches(Listed(i).value)
    /\ \A i, j \in 1..Len(RawIdList.v) : Listed(i).value = Listed(j).value => i = j
    /\ Latest.ok
    /\ \E i \in 1..Len(RawIdList.v) : Listed(i).value = Latest.value

\* the name manifest.donors_file resolves to, and what is found there
DonorsName == DonorsFileName(TheManifest)
DonorsFile == RootFile(root, DonorsName)
DonorsIsArray == DonorsFile.st = "json" /\ DonorsFile.data.t = "list"

\* C5 as stated: an existing donors file is parsed as a JSON array (anything
\* else fails), an absent donors.json gives donors = [], and an absent file of
\* any other name fails.
C5_DonorLoading ==
    (Returned /\ ManifestObject) =>
        /\ (Exists(DonorsFile) /\ DonorsIsArray /\ RestValid)
              => (outcome = "ok" /\ merged["donors"] = JList(DonorsFile.data.v))
        /\ (Exists(DonorsFile) /\ ~DonorsIsArray) => outcome = "error"
        /\ (DonorsName = donors_json /\ ~Exists(DonorsFile) /\ RestValid)
              => (outcome = "ok" /\ merged["donors"] = JList(<<>>))
        /\ (DonorsName # donors_json /\ ~Exists(DonorsFile)) => outcome = "error"

\* C5 amended: a donors_file that is empty after trimming names no file:
\* nothing is read and donors = []; for every other name C5 holds as stated.
C5_DonorLoadingNonEmptyName ==
    (Returned /\ ManifestObject) =>
        /\ (DonorsName = <<>> /\ RestValid)
              => (outcome = "ok" /\ merged["donors"] = JList(<<>>))
        /\ (DonorsName # <<>> /\ Exists(DonorsFile) /\ DonorsIsArray /\ RestValid)
              => (outcome = "ok" /\ merged["donors"] = JList(DonorsFile.data.v))
        /\ (DonorsName # <<>> /\ Exists(DonorsFile) /\ ~DonorsIsArray)
              => outcome = "error"
        /\ (DonorsName = donors_json /\ ~Exists(DonorsFile) /\ RestValid)
              => (outcome = "ok" /\ merged["donors"] = JList(<<>>))
        /\ (DonorsName # <<>> /\ DonorsName # donors_json /\ ~Exists(DonorsFile))
              => outcome = "error"

\* C5's case: donors_file is blank, and a donors.json that is no array lies
\* unread beside the manifest
C5_Witness ==
    /\ Returned
    /\ outcome = "ok"
    /\ "donors_file" \in DOMAIN TheManifest
    /\ TheManifest["donors_file"] = JStr(<<" ", " ">>)
    /\ RootFile(root, donors_json).st = "badjson"
    /\ merged["donors"] = JList(<<>>)

----------------------------------------------------------------------------
(* The claim about _apply_overrides, checked under SpecOverrides *)

Platforms == {"android", "ios", "windows"}

UrlArg(p) ==
    CASE p = "android" -> args.android_url
      [] p = "ios" -> args.ios_url
      [] p = "windows" -> args.windows_url

VersionArg(p) ==
    CASE p = "android" -> args.android_version
      [] p = "ios" -> args.ios_version
      [] p = "windows" -> args.windows_version

\* key k is in both dicts with one value, or in neither
SameKey(a, b, k) ==
    /\ (k \in DOMAIN a) = (k \in DOMAIN b)
    /\ k \in DOMAIN a => a[k] = b[k]

\* C6: for a platform that is an object of an object version_info, url becomes
\* the trimmed URL override when that is non-empty, and latest_version the
\* trimmed version override when that is non-empty, else the trimmed tag when
\* tag and URL override are both non-empty; everything else stays as it was,
\* and so does the whole document when version_info is no object.
C6_Overrides ==
    Returned =>
        LET before == Get(given, "version_info", JNull)
        IN  /\ DOMAIN merged = DOMAIN given
            /\ \A k \in DOMAIN given \ {"version_info"} : merged[k] = given[k]
            /\ before.t # "dict" => merged = given
            /\ before.t = "dict" =>
                  /\ merged["version_info"].t = "dict"
                  /\ DOMAIN merged["version_info"].v = DOMAIN before.v
                  /\ \A p \in DOMAIN before.v :
                        IF p \in Platforms /\ before.v[p].t = "dict"
                        THEN LET b == before.v[p].v
                                 a == merged["version_info"].v[p].v
                                 url == Strip(UrlArg(p))
                                 version == Strip(VersionArg(p))
                                 tag == Strip(args.tag_version)
                             IN  /\ merged["version_info"].v[p].t = "dict"
                                 /\ IF url # <<>>
                                    THEN "url" \in DOMAIN a /\ a["url"] = JStr(url)
                                    ELSE SameKey(a, b, "url")
                                 /\ IF version # <<>>
                                    THEN /\ "latest_version" \in DOMAIN a
                                         /\ a["latest_version"] = JStr(version)
                                    ELSE IF url # <<>> /\ tag # <<>>
                                    THEN /\ "latest_version" \in DOMAIN a
                                         /\ a["latest_version"] = JStr(tag)
                                    ELSE SameKey(a, b, "latest_version")
                                 /\ \A k \in (DOMAIN a \cup DOMAIN b) \ {"url", "latest_version"} :
                                       SameKey(a, b, k)
                        ELSE merged["version_info"].v[p] = before.v[p]

\* C6's case: android gets a URL and no version and takes the tag; ios gets a
\* URL and a version and takes the version
C6_Witness ==
    /\ Returned
    /\ args.tag_version = <<" ", "3", " ">>
    /\ args.android_url = <<" ", "u", " ">>
    /\ args.android_version = <<>>
    /\ args.ios_url = <<" ", "u", " ">>
    /\ args.ios_version = <<" ", "9">>
    /\ "version_info" \in DOMAIN given
    /\ given["version_info"].t = "dict"
    /\ {"android", "ios"} \subseteq DOMAIN given["version_info"].v
    /\ given["version_info"].v["android"].t = "dict"
    /\ given["version_info"].v["ios"].t = "dict"
    /\ "latest_version" \in DOMAIN given["version_info"].v["android"].v
    /\ merged["version_info"].v["android"].v["latest_version"] = JStr(<<"3">>)
    /\ merged["version_info"].v["ios"].v["latest_version"] = JStr(<<"9">>)

----------------------------------------------------------------------------
(* The claim about _build_release_note, checked under SpecReleaseNote *)

\* no space at either end
Trimmed(s) == s = <<>> \/ (s[1] # " " /\ s[Len(s)] # " ")

NoUpperCase(s) == \A i \in 1..Len(s) : \A k \in 1..26 : s[i] # UpperChars[k]

\* a list of non-empty trimmed strings
TrimmedStrings(xs) ==
    \A i \in 1..Len(xs) : xs[i].t = "str" /\ xs[i].v # <<>> /\ Trimmed(xs[i].v)

\* C10: every item of a release note has a non-empty trimmed category or
\* non-empty contents; the contents are a list of non-empty trimmed strings,
\* or a dict from non-empty trimmed lowercase language codes to non-empty
\* lists of such strings; the items are those of the entry that are objects
\* and have a category or contents, in the entry's order.
C10_ItemsNormalized ==
    Returned =>
        LET raw == Get(entry, "items", JNull)
            in == IF raw.t = "list" THEN raw.v ELSE <<>>
            out == IF note.t = "dict" THEN note.v.items.v ELSE <<>>
            Category(i) == Strip(PyStr(Get(in[i].v, "category", JStr(<<>>))))
            Contents(i) == NormalizedContents(Get(in[i].v, "contents", JNull))
            K == {i \in 1..Len(in) :
                    in[i].t = "dict" /\ (Category(i) # <<>> \/ PyBool(Contents(i)))}
        IN  /\ Len(out) = Cardinality(K)
            /\ \A j \in 1..Len(out) :
                  LET category == out[j].v.category
                      contents == out[j].v.contents
                  IN  /\ out[j].t = "dict"
                      /\ DOMAIN out[j].v = {"category", "contents"}
                      /\ category = JStr(Category(Nth(K, j)))
                      /\ Trimmed(category.v)
                      /\ contents = Contents(Nth(K, j))
                      /\ category.v # <<>> \/ PyBool(contents)
                      /\ \/ contents.t = "list" /\ TrimmedStrings(contents.v)
                         \/ /\ contents.t = "dict"
                            /\ \A l \in DOMAIN contents.v :
                                  /\ l # <<>>
                                  /\ Trimmed(l)
                                  /\ NoUpperCase(l)
                                  /\ contents.v[l].t = "list"
                                  /\ contents.v[l].v # <<>>
                                  /\ TrimmedStrings(contents.v[l].v)

\* C10's case: of two items the first, an object with neither category nor
\* contents, is dropped and the second keeps its localized contents
C10_Witness ==
    /\ Returned
    /\ note.t = "dict"
    /\ Len(entry["items"].v) = 2
    /\ entry["items"].v[1].t = "dict"
    /\ Len(note.v.items.v) = 1
    /\ note.v.items.v[1].v.contents.t = "dict"
    /\ Cardinality(DOMAIN note.v.items.v[1].v.contents.v) = 2

----------------------------------------------------------------------------
(* The claim about main, checked under Spec *)

\* the try block of main ended without ConfigError
Validated == pc # "main" /\ error.kind = "none"

\* the output path is as it was before the run
OutputUntouched == output.st \in {"absent", "old"}

\* C7: the output file is written at most once and only after validation
\* succeeded without --validate-only; a run that ends with exit code 1 leaves
\* no partial output; the exit code is 0 exactly when validation succeeded and
\* the run was validate-only or the write succeeded.
C7_OutputOnlyOnSuccess ==
    /\ writes <= 1
    /\ writes > 0 => (Validated /\ ~args.validate_only)
    /\ ~OutputUntouched => (Validated /\ ~args.validate_only /\ writes = 1)
    /\ args.validate_only => (writes = 0 /\ OutputUntouched)
    /\ exit_code = 1 => OutputUntouched
    /\ output.st = "written" => (exit_code = 0 /\ output.doc = merged)
    /\ pc = "exit" =>
          (exit_code = 0 <=>
              (Validated /\ (args.validate_only \/ output.st = "written")))

====
